---- MODULE Spec2Model ----
(***************************************************************************)
(* DiffChecker comparison engine: two tables are compared by four          *)
(* validators (file level, schema, column statistics, row level) and the   *)
(* four results are reduced to one overall status.                         *)
(***************************************************************************)
EXTENDS Integers, Sequences, FiniteSets, TLC

(***************************************************************************)
(* Bounds of the model.                                                    *)
(***************************************************************************)
\* the tables have 1..MaxRows rows
MaxRows == 2
\* the aggregator is given lists of 0..MaxResults results
MaxResults == 4
\* max_differences is 0..MaxCap or the default
MaxCap == 2
\* the tables of the interleaved run have 1..ParRows rows
ParRows == 1

\* significant bits of the floats of the model (float64 has 53)
Precision == 3

\* default of the max_differences parameter
DefaultMaxDifferences == 100

\* the column names, in ascending (lexicographic) order
NameOrder == <<"a", "b">>

Names == {NameOrder[i] : i \in DOMAIN NameOrder}

(***************************************************************************)
(* Values of a cell.  A value keeps its Python kind: str(1) is "1",        *)
(* str(1.0) is "1.0", str(nan) is "nan".                                   *)
(***************************************************************************)
IntV(n) == [kind |-> "int", n |-> n, s |-> ""]
FloatV(n) == [kind |-> "float", n |-> n, s |-> ""]
StrV(t) == [kind |-> "str", n |-> 0, s |-> t]
NaN == [kind |-> "nan", n |-> 0, s |-> ""]
None == [kind |-> "none", n |-> 0, s |-> ""]
\* True is 1 and False is 0
BoolV(n) == [kind |-> "bool", n |-> n, s |-> ""]
\* a pd.Timestamp: day n of January 2024
DatetimeV(n) == [kind |-> "datetime", n |-> n, s |-> ""]

\* pd.isna(val)
isna(v) == v.kind \in {"nan", "none"}

IsNumber(v) == v.kind \in {"int", "float", "bool"}

\* Python's val1 != val2 on scalars: nan is unequal to everything, nan included
PyNe(v1, v2) ==
    IF v1.kind = "nan" \/ v2.kind = "nan" THEN TRUE
    ELSE IF IsNumber(v1) /\ IsNumber(v2) THEN v1.n # v2.n
    ELSE IF v1.kind = "str" /\ v2.kind = "str" THEN v1.s # v2.s
    ELSE IF v1.kind = "datetime" /\ v2.kind = "datetime" THEN v1.n # v2.n
    ELSE v1.kind # v2.kind

\* Python's str(val)
PyStr(v) ==
    CASE v.kind = "int" -> ToString(v.n)
      [] v.kind = "float" -> ToString(v.n) \o ".0"
      [] v.kind = "str" -> v.s
      [] v.kind = "nan" -> "nan"
      [] v.kind = "bool" -> (IF v.n = 1 THEN "True" ELSE "False")
      [] v.kind = "datetime" -> "2024-01-0" \o ToString(v.n) \o " 00:00:00"
      [] OTHER -> "None"

(***************************************************************************)
(* Tables (pandas DataFrames): ordered column names, one dtype and one     *)
(* sequence of nrows values per column, both by column position.           *)
(***************************************************************************)
Range(f) == {f[i] : i \in DOMAIN f}

ColumnSet(df) == Range(df.columns)

NumCols(df) == Len(df.columns)

\* position of a column name in the table
ColPos(df, c) == CHOOSE p \in 1..Len(df.columns) : df.columns[p] = c

\* df[col]: the column as a series
Column(df, c) == [dtype |-> df.dtypes[ColPos(df, c)], vals |-> df.data[ColPos(df, c)]]

\* df[names]: a new frame with the named columns in the given order
SelectColumns(df, names) ==
    [columns |-> names,
     nrows |-> df.nrows,
     dtypes |-> [i \in 1..Len(names) |-> df.dtypes[ColPos(df, names[i])]],
     data |-> [i \in 1..Len(names) |-> df.data[ColPos(df, names[i])]]]

\* the first integer whose successor is not a float: 2^53 for float64, scaled
\* to the Precision bits of the model's floats
Big == 2 ^ Precision

\* the gap between neighbouring floats around n, n >= 0
RECURSIVE Ulp(_, _)
Ulp(n, step) == IF n < Big * step THEN step ELSE Ulp(n, 2 * step)

\* float(n) for an integer n >= 0: the nearest float, ties to the even
\* significand (IEEE 754 round-half-even)
RoundFloat(n) ==
    IF n < Big THEN n
    ELSE LET step == Ulp(n, 1)
             q == n \div step
             r == n % step
         IN IF 2 * r < step THEN q * step
            ELSE IF 2 * r > step THEN (q + 1) * step
            ELSE IF q % 2 = 0 THEN q * step ELSE (q + 1) * step

\* dtype of the series df.iloc[idx]: the common dtype of the columns
RowDtype(df) ==
    LET ds == Range(df.dtypes) IN
    IF Cardinality(ds) <= 1 THEN (IF ds = {} THEN "object" ELSE CHOOSE d \in ds : TRUE)
    ELSE IF ds \subseteq {"int64", "float64"} THEN "float64"
    ELSE "object"

\* df.iloc[idx][col]: the cell, cast to the row's common dtype (an integer
\* cast to float64 is rounded to the nearest float)
RowValue(df, idx, c) ==
    LET v == df.data[ColPos(df, c)][idx + 1] IN
    IF RowDtype(df) = "float64" /\ v.kind = "int" THEN FloatV(RoundFloat(v.n)) ELSE v


\* a slip: the names of the set in descending order
SortedNamesDescending(S) ==
    LET n == Len(NameOrder)
        reversed == [i \in 1..n |-> NameOrder[n + 1 - i]]
    IN SelectSeq(reversed, LAMBDA c : c \in S)

\* sorted(set) of column names: the names of the set in ascending order
SortedNames(S) == SelectSeq(NameOrder, LAMBDA c : c \in S)

(***************************************************************************)
(* models/result.py                                                        *)
(***************************************************************************)
ValidationStatus == {"pass", "warning", "fail"}

ValidationResult(name, status, summary, details) ==
    [name |-> name, status |-> status, summary |-> summary, details |-> details]

\* a slip: WARNING tested before FAIL
compute_overall_status_warning_first(results) ==
    LET statuses == [i \in DOMAIN results |-> results[i].status] IN
    IF "warning" \in Range(statuses) THEN "warning"
    ELSE IF "fail" \in Range(statuses) THEN "fail"
    ELSE "pass"

compute_overall_status(results) ==
    LET statuses == [i \in DOMAIN results |-> results[i].status] IN
    IF "fail" \in Range(statuses) THEN "fail"
    ELSE IF "warning" \in Range(statuses) THEN "warning"
    ELSE "pass"

(***************************************************************************)
(* utils/helpers.py                                                        *)
(***************************************************************************)
\* pd.api.types.is_numeric_dtype: integer, float and bool dtypes
is_numeric_column(series) == series.dtype \in {"int64", "float64", "bool"}


\* a slip: a text column whose values all read as numbers tagged by its content
get_column_type_by_content(series) ==
    IF series.dtype = "int64" THEN "integer"
    ELSE IF series.dtype = "float64" THEN "float"
    ELSE IF series.dtype = "datetime64" THEN "datetime"
    ELSE IF series.dtype = "bool" THEN "boolean"
    ELSE IF \A i \in DOMAIN series.vals :
                series.vals[i].kind = "str" /\ series.vals[i].s \in {"0", "1"}
         THEN "integer"
    ELSE "string"

get_column_type(series) ==
    IF series.dtype = "int64" THEN "integer"
    ELSE IF series.dtype = "float64" THEN "float"
    ELSE IF series.dtype = "datetime64" THEN "datetime"
    ELSE IF series.dtype = "bool" THEN "boolean"
    ELSE "string"

(***************************************************************************)
(* validation/file_checks.py                                               *)
(***************************************************************************)
JoinComma(issues) ==
    IF Len(issues) = 0 THEN ""
    ELSE IF Len(issues) = 1 THEN issues[1]
    ELSE issues[1] \o ", " \o issues[2] \o
         (IF Len(issues) > 2 THEN ", " \o issues[3] ELSE "")


\* a slip: the columns compared by their names instead of their number
validate_file_level_by_names(df1, df2) ==
    LET row_match == df1.nrows = df2.nrows
        col_match == ColumnSet(df1) = ColumnSet(df2)
    IN ValidationResult(
         "File Validation",
         IF row_match /\ col_match THEN "pass" ELSE "fail",
         IF row_match /\ col_match THEN "File structure matches" ELSE "mismatch",
         [row_count_1 |-> df1.nrows,
          row_count_2 |-> df2.nrows,
          column_count_1 |-> NumCols(df1),
          column_count_2 |-> NumCols(df2),
          row_match |-> row_match,
          column_match |-> col_match])

validate_file_level(df1, df2) ==
    LET row_match == df1.nrows = df2.nrows
        col_match == NumCols(df1) = NumCols(df2)
        issues ==
            (IF ~row_match
             THEN <<"row count mismatch (" \o ToString(df1.nrows) \o " vs "
                    \o ToString(df2.nrows) \o ")">>
             ELSE <<>>)
            \o
            (IF ~col_match
             THEN <<"column count mismatch (" \o ToString(NumCols(df1)) \o " vs "
                    \o ToString(NumCols(df2)) \o ")">>
             ELSE <<>>)
    IN ValidationResult(
         "File Validation",
         IF row_match /\ col_match THEN "pass" ELSE "fail",
         IF row_match /\ col_match THEN "File structure matches" ELSE JoinComma(issues),
         [row_count_1 |-> df1.nrows,
          row_count_2 |-> df2.nrows,
          column_count_1 |-> NumCols(df1),
          column_count_2 |-> NumCols(df2),
          row_match |-> row_match,
          column_match |-> col_match])

(***************************************************************************)
(* validation/schema_checks.py                                             *)
(***************************************************************************)

\* a slip: the loop left at the first mismatch
TypeMismatchesFirstOnly(df1, df2, common) ==
    LET differing == SelectSeq(common, LAMBDA c :
                         get_column_type(Column(df1, c)) # get_column_type(Column(df2, c)))
    IN IF differing = <<>> THEN <<>>
       ELSE <<[column |-> differing[1],
               source_type |-> get_column_type(Column(df1, differing[1])),
               target_type |-> get_column_type(Column(df2, differing[1]))]>>

\* the type_mismatches list built by the loop over the common columns
RECURSIVE TypeMismatches(_, _, _)
TypeMismatches(df1, df2, common) ==
    IF common = <<>> THEN <<>>
    ELSE LET col == Head(common)
             type1 == get_column_type(Column(df1, col))
             type2 == get_column_type(Column(df2, col))
         IN (IF type1 # type2
             THEN <<[column |-> col, source_type |-> type1, target_type |-> type2]>>
             ELSE <<>>)
            \o TypeMismatches(df1, df2, Tail(common))


\* a slip: missing and extra columns listed without failing the check
validate_schema_types_only(df1, df2) ==
    LET cols1 == ColumnSet(df1)
        cols2 == ColumnSet(df2)
        missing == SortedNames(cols1 \ cols2)
        extra == SortedNames(cols2 \ cols1)
        common == SortedNames(cols1 \cap cols2)
        type_mismatches == TypeMismatches(df1, df2, common)
        failed == type_mismatches # <<>>
    IN ValidationResult(
         "Schema Validation",
         IF failed THEN "fail" ELSE "pass",
         IF failed THEN ToString(Len(type_mismatches)) \o " type mismatch(es)"
         ELSE "Schema matches perfectly",
         [missing_columns |-> missing,
          extra_columns |-> extra,
          common_columns |-> common,
          type_mismatches |-> type_mismatches])

validate_schema(df1, df2) ==
    LET cols1 == ColumnSet(df1)
        cols2 == ColumnSet(df2)
        missing == SortedNames(cols1 \ cols2)
        extra == SortedNames(cols2 \ cols1)
        common == SortedNames(cols1 \cap cols2)
        type_mismatches == TypeMismatches(df1, df2, common)
        failed == missing # <<>> \/ extra # <<>> \/ type_mismatches # <<>>
        issues ==
            (IF missing # <<>>
             THEN <<ToString(Len(missing)) \o " missing column(s)">> ELSE <<>>)
            \o
            (IF extra # <<>>
             THEN <<ToString(Len(extra)) \o " extra column(s)">> ELSE <<>>)
            \o
            (IF type_mismatches # <<>>
             THEN <<ToString(Len(type_mismatches)) \o " type mismatch(es)">> ELSE <<>>)
    IN ValidationResult(
         "Schema Validation",
         IF failed THEN "fail" ELSE "pass",
         IF failed THEN JoinComma(issues) ELSE "Schema matches perfectly",
         [missing_columns |-> missing,
          extra_columns |-> extra,
          common_columns |-> common,
          type_mismatches |-> type_mismatches])

(***************************************************************************)
(* validation/stats_checks.py                                              *)
(***************************************************************************)
Min2(x, y) == IF x <= y THEN x ELSE y
Max2(x, y) == IF x >= y THEN x ELSE y

\* the values of a series that are not missing, in order
NotNa(vals) == SelectSeq(vals, LAMBDA v : ~isna(v))

\* series.isna().sum()
NullCount(series) == Len(series.vals) - Len(NotNa(series.vals))

RECURSIVE SeqMin(_)
SeqMin(vs) == IF Len(vs) = 1 THEN vs[1].n ELSE Min2(vs[1].n, SeqMin(Tail(vs)))

RECURSIVE SeqMax(_)
SeqMax(vs) == IF Len(vs) = 1 THEN vs[1].n ELSE Max2(vs[1].n, SeqMax(Tail(vs)))

RECURSIVE SeqSum(_)
SeqSum(vs) == IF vs = <<>> THEN 0 ELSE vs[1].n + SeqSum(Tail(vs))

\* series.isna().all()
AllNa(series) == NotNa(series.vals) = <<>>

\* float(series.min()) if not series.isna().all() else None
StatMin(series) ==
    IF ~AllNa(series) THEN FloatV(RoundFloat(SeqMin(NotNa(series.vals)))) ELSE None

StatMax(series) ==
    IF ~AllNa(series) THEN FloatV(RoundFloat(SeqMax(NotNa(series.vals)))) ELSE None

\* the sum of a float64 column: the values added one after the other, each
\* partial sum rounded to a float
RECURSIVE FloatSum(_, _)
FloatSum(vs, acc) ==
    IF vs = <<>> THEN acc ELSE FloatSum(Tail(vs), RoundFloat(acc + vs[1].n))

\* series.sum(): exact for an integer or boolean column, in floating point
\* for a float64 column; missing values are skipped
SeriesSum(series) ==
    IF series.dtype = "float64" THEN FloatSum(NotNa(series.vals), 0)
    ELSE SeqSum(NotNa(series.vals))


\* a slip: the sum of a column without values given as 0.0
StatSumZeroWhenAllNull(series) == FloatV(RoundFloat(SeriesSum(series)))

\* float(series.sum()) if not series.isna().all() else None
StatSum(series) ==
    IF ~AllNa(series) THEN FloatV(RoundFloat(SeriesSum(series))) ELSE None


\* a slip: the missing value counted as one more distinct value
NUniqueCountingNull(series) == Cardinality(Range(series.vals))

\* series.nunique(): the number of distinct values, missing ones not counted
NUnique(series) == Cardinality(Range(NotNa(series.vals)))


NumericStats(col, col1, col2) ==
    LET source_nulls == NullCount(col1)
        target_nulls == NullCount(col2)
        source_min == StatMin(col1)
        target_min == StatMin(col2)
        source_max == StatMax(col1)
        target_max == StatMax(col2)
        source_sum == StatSum(col1)
        target_sum == StatSum(col2)
        mismatch == \/ source_nulls # target_nulls
                    \/ PyNe(source_min, target_min)
                    \/ PyNe(source_max, target_max)
                    \/ PyNe(source_sum, target_sum)
    IN [column |-> col,
        type |-> "numeric",
        source_nulls |-> source_nulls,
        target_nulls |-> target_nulls,
        source_min |-> source_min,
        target_min |-> target_min,
        source_max |-> source_max,
        target_max |-> target_max,
        source_sum |-> source_sum,
        target_sum |-> target_sum,
        match |-> ~mismatch]

NonNumericStats(col, col1, col2) ==
    LET source_nulls == NullCount(col1)
        target_nulls == NullCount(col2)
        source_unique == NUnique(col1)
        target_unique == NUnique(col2)
        mismatch == source_nulls # target_nulls \/ source_unique # target_unique
    IN [column |-> col,
        type |-> "non-numeric",
        source_nulls |-> source_nulls,
        target_nulls |-> target_nulls,
        source_unique |-> source_unique,
        target_unique |-> target_unique,
        match |-> ~mismatch]

\* one pass of the loop over the common columns: the column's record
ColumnStats(df1, df2, col) ==
    LET col1 == Column(df1, col)
        col2 == Column(df2, col)
    IN IF is_numeric_column(col1) /\ is_numeric_column(col2)
       THEN NumericStats(col, col1, col2)
       ELSE NonNumericStats(col, col1, col2)


\* a slip: a single column with differences tolerated
validate_column_stats_tolerant(df1, df2) ==
    LET common_cols == SortedNames(ColumnSet(df1) \cap ColumnSet(df2))
        stats_comparison == [i \in 1..Len(common_cols) |-> ColumnStats(df1, df2, common_cols[i])]
        mismatches == Cardinality({i \in 1..Len(common_cols) : ~stats_comparison[i].match})
    IN IF common_cols = <<>>
       THEN ValidationResult("Column Statistics", "warning",
                             "No common columns to compare", [stats |-> <<>>])
       ELSE ValidationResult(
              "Column Statistics",
              IF mismatches > 1 THEN "fail" ELSE "pass",
              IF mismatches > 1
              THEN ToString(mismatches) \o " column(s) with statistical differences"
              ELSE "All column statistics match",
              [stats |-> stats_comparison, mismatch_count |-> mismatches])

\* a slip: no early return when the tables share no column
validate_column_stats_no_early_return(df1, df2) ==
    LET common_cols == SortedNames(ColumnSet(df1) \cap ColumnSet(df2))
        stats_comparison == [i \in 1..Len(common_cols) |-> ColumnStats(df1, df2, common_cols[i])]
        mismatches == Cardinality({i \in 1..Len(common_cols) : ~stats_comparison[i].match})
    IN ValidationResult(
         "Column Statistics",
         IF mismatches > 0 THEN "fail" ELSE "pass",
         IF mismatches > 0
         THEN ToString(mismatches) \o " column(s) with statistical differences"
         ELSE "All column statistics match",
         [stats |-> stats_comparison, mismatch_count |-> mismatches])

validate_column_stats(df1, df2) ==
    LET common_cols == SortedNames(ColumnSet(df1) \cap ColumnSet(df2))
        stats_comparison == [i \in 1..Len(common_cols) |-> ColumnStats(df1, df2, common_cols[i])]
        mismatches == Cardinality({i \in 1..Len(common_cols) : ~stats_comparison[i].match})
    IN IF common_cols = <<>>
       THEN ValidationResult("Column Statistics", "warning",
                             "No common columns to compare", [stats |-> <<>>])
       ELSE ValidationResult(
              "Column Statistics",
              IF mismatches > 0 THEN "fail" ELSE "pass",
              IF mismatches > 0
              THEN ToString(mismatches) \o " column(s) with statistical differences"
              ELSE "All column statistics match",
              [stats |-> stats_comparison, mismatch_count |-> mismatches])

(***************************************************************************)
(* validation/row_checks.py                                                *)
(*                                                                         *)
(* The call is a frame w: pc is the position in the function, idx and ci   *)
(* the row index and the column position of the two loops, differences the *)
(* list built so far, compared the cells whose values have been read (in   *)
(* order), ret the returned result once pc is "done".                      *)
(***************************************************************************)
\* df2_aligned = df2[df1.columns]
Aligned(df1, df2) == SelectColumns(df2, df1.columns)

\* val1 = row1[col] with row1 = df1.iloc[idx]
Val1(df1, df2, idx, col) == RowValue(df1, idx, col)

\* a slip: the cell of table 2 taken at the column's position in table 1
Val2ByPosition(df1, df2, idx, col) ==
    LET v == df2.data[ColPos(df1, col)][idx + 1] IN
    IF RowDtype(df2) = "float64" /\ v.kind = "int" THEN FloatV(RoundFloat(v.n)) ELSE v

\* val2 = row2[col] with row2 = df2_aligned.iloc[idx]
Val2(df1, df2, idx, col) == RowValue(Aligned(df1, df2), idx, col)

\* seq[:k]
PySliceTo(seq, k) ==
    IF k >= 0 THEN SubSeq(seq, 1, Min2(k, Len(seq)))
    ELSE SubSeq(seq, 1, Max2(0, Len(seq) + k))

RowFrame(pc, idx, ci, differences, compared, ret) ==
    [pc |-> pc, idx |-> idx, ci |-> ci, differences |-> differences,
     compared |-> compared, ret |-> ret]

\* the frame on entry of validate_row_level
RowCall == RowFrame("entry", 0, 1, <<>>, <<>>, <<>>)

RowWarning(summary) ==
    ValidationResult("Row Level Differences", "warning", summary, [differences |-> <<>>])

\* a slip: the column names tested before the row counts
RowEntryColumnsFirst(df1, df2, max_differences, w) ==
    IF ColumnSet(df1) # ColumnSet(df2)
    THEN [w EXCEPT !.pc = "done",
                   !.ret = <<RowWarning("Cannot compare rows - column names differ")>>]
    ELSE IF df1.nrows # df2.nrows
    THEN [w EXCEPT !.pc = "done",
                   !.ret = <<RowWarning("Cannot compare rows - row counts differ")>>]
    ELSE IF df1.nrows = 0 \/ NumCols(df1) = 0
    THEN [w EXCEPT !.pc = "status"]
    ELSE [w EXCEPT !.pc = "loop"]


\* a slip: the walk also refused when a column's type tags differ
RowEntryTypesToo(df1, df2, max_differences, w) ==
    IF df1.nrows # df2.nrows
    THEN [w EXCEPT !.pc = "done",
                   !.ret = <<RowWarning("Cannot compare rows - row counts differ")>>]
    ELSE IF ColumnSet(df1) # ColumnSet(df2)
    THEN [w EXCEPT !.pc = "done",
                   !.ret = <<RowWarning("Cannot compare rows - column names differ")>>]
    ELSE IF \E c \in ColumnSet(df1) :
                get_column_type(Column(df1, c)) # get_column_type(Column(df2, c))
    THEN [w EXCEPT !.pc = "done",
                   !.ret = <<RowWarning("Cannot compare rows - column types differ")>>]
    ELSE IF df1.nrows = 0 \/ NumCols(df1) = 0
    THEN [w EXCEPT !.pc = "status"]
    ELSE [w EXCEPT !.pc = "loop"]

\* the two preconditions, then the start of the walk
RowEntry(df1, df2, max_differences, w) ==
    IF df1.nrows # df2.nrows
    THEN [w EXCEPT !.pc = "done",
                   !.ret = <<RowWarning("Cannot compare rows - row counts differ")>>]
    ELSE IF ColumnSet(df1) # ColumnSet(df2)
    THEN [w EXCEPT !.pc = "done",
                   !.ret = <<RowWarning("Cannot compare rows - column names differ")>>]
    ELSE IF df1.nrows = 0 \/ NumCols(df1) = 0
    THEN [w EXCEPT !.pc = "status"]
    ELSE [w EXCEPT !.pc = "loop"]

\* the difference recorded for a cell
Difference(idx, col, val1, val2) ==
    [row_index |-> idx, column |-> col,
     source_value |-> PyStr(val1), target_value |-> PyStr(val2)]

\* a slip: no special case for two missing values
CellDiffersNoNaNCase(val1, val2) == PyNe(val1, val2)

\* a slip: a missing value skipped whatever the other value is
CellDiffersAnyNaNSkipped(val1, val2) ==
    IF isna(val1) \/ isna(val2) THEN FALSE ELSE PyNe(val1, val2)

\* is the cell recorded as a difference?
CellDiffers(val1, val2) ==
    IF isna(val1) /\ isna(val2) THEN FALSE ELSE PyNe(val1, val2)

\* a slip: the inner loop stops one difference early
InnerBreakOffByOne(differs, differences, max_differences) ==
    differs /\ Len(differences) + 1 >= max_differences

\* if len(differences) >= max_differences: break, inside the inner loop,
\* reached only when the cell was recorded
InnerBreak(differs, differences, max_differences) ==
    differs /\ Len(differences) >= max_differences

\* a slip: the outer loop has no break
OuterBreakMissing(differences, max_differences) == FALSE

\* if len(differences) >= max_differences: break, after the inner loop
OuterBreak(differences, max_differences) ==
    Len(differences) >= max_differences

\* one pass of the inner loop body, and the move to the next cell
RowCompare(df1, df2, max_differences, w) ==
    LET col == df1.columns[w.ci]
        val1 == Val1(df1, df2, w.idx, col)
        val2 == Val2(df1, df2, w.idx, col)
        differs == CellDiffers(val1, val2)
        differences == IF differs
                       THEN Append(w.differences, Difference(w.idx, col, val1, val2))
                       ELSE w.differences
        row_ended == InnerBreak(differs, differences, max_differences)
                     \/ w.ci = NumCols(df1)
        compared == Append(w.compared, <<w.idx, col>>)
    IN IF ~row_ended
       THEN RowFrame("loop", w.idx, w.ci + 1, differences, compared, <<>>)
       ELSE IF OuterBreak(differences, max_differences) \/ w.idx + 1 = df1.nrows
       THEN RowFrame("status", w.idx, w.ci, differences, compared, <<>>)
       ELSE RowFrame("loop", w.idx + 1, 1, differences, compared, <<>>)

\* a variant: the note only when the cap is reached
FoundSummaryNoteWhenCapped(found, max_differences) ==
    IF found >= max_differences
    THEN "Found " \o ToString(found) \o " difference(s) (showing first "
         \o ToString(max_differences) \o ")"
    ELSE "Found " \o ToString(found) \o " difference(s)"

\* the summary of a FAIL result
FoundSummary(found, max_differences) ==
    "Found " \o ToString(found) \o " difference(s) (showing first "
    \o ToString(max_differences) \o ")"

\* the status, the summary and the returned result
RowStatus(df1, df2, max_differences, w) ==
    [w EXCEPT !.pc = "done",
              !.ret = <<ValidationResult(
                          "Row Level Differences",
                          IF w.differences # <<>> THEN "fail" ELSE "pass",
                          IF w.differences # <<>>
                          THEN FoundSummary(Len(w.differences), max_differences)
                          ELSE "All rows match perfectly",
                          [differences |-> PySliceTo(w.differences, max_differences)])>>]

RowStep(df1, df2, max_differences, w) ==
    CASE w.pc = "entry" -> RowEntry(df1, df2, max_differences, w)
      [] w.pc = "loop" -> RowCompare(df1, df2, max_differences, w)
      [] w.pc = "status" -> RowStatus(df1, df2, max_differences, w)
      [] OTHER -> w

RECURSIVE RowRun(_, _, _, _)
RowRun(df1, df2, max_differences, w) ==
    IF w.pc = "done" THEN w
    ELSE RowRun(df1, df2, max_differences, RowStep(df1, df2, max_differences, w))

\* the result of a whole call
validate_row_level(df1, df2, max_differences) ==
    RowRun(df1, df2, max_differences, RowCall).ret[1]

(***************************************************************************)
(* The tables and the caps of the model.                                   *)
(***************************************************************************)
\* column a holds integers, column b floats with missing values
DtypeOf(name) == IF name = "a" THEN "int64" ELSE "float64"

\* the values a column of a dtype holds: a missing number is NaN in a float64
\* column, an int64 column has no missing value
ValuesOf(dtype) ==
    IF dtype = "int64" THEN {IntV(1), IntV(2)} ELSE {FloatV(1), NaN}

\* sequences of distinct column names
ColSeqs ==
    {cs \in UNION {[1..k -> Names] : k \in 1..Cardinality(Names)} :
        \A i \in DOMAIN cs : \A j \in DOMAIN cs : cs[i] = cs[j] => i = j}

TablesOf(cols, nrows) ==
    LET dtypes == [i \in 1..Len(cols) |-> DtypeOf(cols[i])]
        AllValues == UNION {ValuesOf(DtypeOf(c)) : c \in Names}
    IN {[columns |-> cols, nrows |-> nrows, dtypes |-> dtypes, data |-> data] :
           data \in {d \in [1..Len(cols) -> [1..nrows -> AllValues]] :
                        \A i \in 1..Len(cols) : \A r \in 1..nrows :
                            d[i][r] \in ValuesOf(dtypes[i])}}

Tables == UNION {TablesOf(cols, nrows) : cols \in ColSeqs, nrows \in 1..MaxRows}

Caps == 0..MaxCap \cup {DefaultMaxDifferences}

\* the storage types a column can have
Dtypes == {"int64", "float64", "bool", "datetime64", "object"}

\* tables of every storage type: a column holds one value in all its rows,
\* the value 1 in the form of its storage type (a text column holds "1")
TypedValue(dtype) ==
    CASE dtype = "int64" -> IntV(1)
      [] dtype = "float64" -> FloatV(1)
      [] dtype = "bool" -> BoolV(1)
      [] dtype = "datetime64" -> DatetimeV(1)
      [] OTHER -> StrV("1")

TypedTablesOf(cols, nrows) ==
    {[columns |-> cols,
      nrows |-> nrows,
      dtypes |-> dtypes,
      data |-> [i \in 1..Len(cols) |-> [r \in 1..nrows |-> TypedValue(dtypes[i])]]] :
        dtypes \in [1..Len(cols) -> Dtypes]}

TypedTables == UNION {TypedTablesOf(cols, nrows) : cols \in ColSeqs, nrows \in 1..MaxRows}

\* tables of one column with every combination of values: zero, a missing
\* value and two distinct values in a number column and in a text column
ColumnValues(dtype) ==
    CASE dtype = "int64" -> {IntV(0), IntV(1)}
      [] dtype = "float64" -> {FloatV(0), FloatV(1), NaN}
      [] OTHER -> {StrV("x"), StrV("y"), NaN}

ValueTablesOf(col, dtype, nrows) ==
    {[columns |-> <<col>>, nrows |-> nrows, dtypes |-> <<dtype>>, data |-> <<vals>>] :
        vals \in [1..nrows -> ColumnValues(dtype)]}

ValueTables ==
    UNION {ValueTablesOf(col, dtype, nrows) :
              col \in Names, dtype \in {"int64", "float64", "object"}, nrows \in 1..MaxRows}

(***************************************************************************)
(* The comparison of two tables (backend/main.py, validate_files): the     *)
(* four validators in order, then the overall status.                      *)
(***************************************************************************)
\* uploads and response are the request of an endpoint: the contents of the
\* two uploaded files and the answer; a comparison started from two tables
\* has neither
VARIABLES uploads, response, df1, df2, max_differences, pc, results, rw, overall_status

vars == <<uploads, response, df1, df2, max_differences, pc, results, rw, overall_status>>

\* no request
NoUploads == <<>>

NoResponse == [endpoint |-> "", status_code |-> 0, body |-> <<>>]

Init ==
    /\ uploads = NoUploads
    /\ response = NoResponse
    /\ df1 \in Tables
    /\ df2 \in Tables
    /\ max_differences \in Caps
    /\ pc = "file"
    /\ results = <<>>
    /\ rw = RowCall
    /\ overall_status = ""

FileLevel ==
    /\ pc = "file"
    /\ results' = Append(results, validate_file_level(df1, df2))
    /\ pc' = "schema"
    /\ UNCHANGED <<uploads, response, df1, df2, max_differences, rw, overall_status>>


\* a slip: the schema check run only after a file-level PASS
SchemaOnlyAfterPass ==
    /\ pc = "schema"
    /\ results[1].status = "pass"
    /\ results' = Append(results, validate_schema(df1, df2))
    /\ pc' = "stats"
    /\ UNCHANGED <<uploads, response, df1, df2, max_differences, rw, overall_status>>

Schema ==
    /\ pc = "schema"
    /\ results' = Append(results, validate_schema(df1, df2))
    /\ pc' = "stats"
    /\ UNCHANGED <<uploads, response, df1, df2, max_differences, rw, overall_status>>

ColumnStatistics ==
    /\ pc = "stats"
    /\ results' = Append(results, validate_column_stats(df1, df2))
    /\ pc' = "row"
    /\ UNCHANGED <<uploads, response, df1, df2, max_differences, rw, overall_status>>

RowLevelEntry ==
    /\ pc = "row"
    /\ rw.pc = "entry"
    /\ rw' = RowEntry(df1, df2, max_differences, rw)
    /\ UNCHANGED <<uploads, response, df1, df2, max_differences, pc, results, overall_status>>

RowLevelCompare ==
    /\ pc = "row"
    /\ rw.pc = "loop"
    /\ rw' = RowCompare(df1, df2, max_differences, rw)
    /\ UNCHANGED <<uploads, response, df1, df2, max_differences, pc, results, overall_status>>

RowLevelStatus ==
    /\ pc = "row"
    /\ rw.pc = "status"
    /\ rw' = RowStatus(df1, df2, max_differences, rw)
    /\ UNCHANGED <<uploads, response, df1, df2, max_differences, pc, results, overall_status>>

RowLevelReturn ==
    /\ pc = "row"
    /\ rw.pc = "done"
    /\ results' = Append(results, rw.ret[1])
    /\ pc' = "overall"
    /\ UNCHANGED <<uploads, response, df1, df2, max_differences, rw, overall_status>>

OverallStatus ==
    /\ pc = "overall"
    /\ overall_status' = compute_overall_status(results)
    /\ pc' = "done"
    /\ UNCHANGED <<uploads, response, df1, df2, max_differences, results, rw>>

Next ==
    \/ FileLevel
    \/ Schema
    \/ ColumnStatistics
    \/ RowLevelEntry
    \/ RowLevelCompare
    \/ RowLevelStatus
    \/ RowLevelReturn
    \/ OverallStatus

Spec == Init /\ [][Next]_vars

(***************************************************************************)
(* The same comparison on tables of every storage type, and on tables of   *)
(* one column with every combination of values.                            *)
(***************************************************************************)
InitTypes ==
    /\ uploads = NoUploads
    /\ response = NoResponse
    /\ df1 \in TypedTables
    /\ df2 \in TypedTables
    /\ max_differences = DefaultMaxDifferences
    /\ pc = "file"
    /\ results = <<>>
    /\ rw = RowCall
    /\ overall_status = ""

SpecTypes == InitTypes /\ [][Next]_vars

InitValues ==
    /\ uploads = NoUploads
    /\ response = NoResponse
    /\ df1 \in ValueTables
    /\ df2 \in ValueTables
    /\ max_differences = DefaultMaxDifferences
    /\ pc = "file"
    /\ results = <<>>
    /\ rw = RowCall
    /\ overall_status = ""

SpecValues == InitValues /\ [][Next]_vars

(***************************************************************************)
(* The comparison as the two endpoints run it (validate_files and          *)
(* export_excel): the row-level validator is called with its default cap.  *)
(***************************************************************************)
InitEndpoint ==
    /\ uploads = NoUploads
    /\ response = NoResponse
    /\ df1 \in Tables
    /\ df2 \in Tables
    /\ max_differences = DefaultMaxDifferences
    /\ pc = "file"
    /\ results = <<>>
    /\ rw = RowCall
    /\ overall_status = ""

SpecEndpoint == InitEndpoint /\ [][Next]_vars

(***************************************************************************)
(* The comparison called on tables of every shape, the table without       *)
(* columns (pd.DataFrame()) included.                                      *)
(***************************************************************************)
(***************************************************************************)
(* The comparison on tables whose numbers reach the precision of a float:  *)
(* an int64 column of integers from Big upwards next to a float64 column,  *)
(* and a float64 column of SumRows values whose sum is rounded on the way. *)
(***************************************************************************)
SumRows == 3

WideTablesOf(nrows) ==
    {[columns |-> <<"a", "b">>, nrows |-> nrows, dtypes |-> <<"int64", "float64">>,
      data |-> <<av, [r \in 1..nrows |-> FloatV(1)]>>] :
        av \in [1..nrows -> {IntV(Big), IntV(Big + 1), IntV(Big + 2)}]}

WideTables == UNION {WideTablesOf(nrows) : nrows \in 1..MaxRows}

SumTables ==
    {[columns |-> <<"b">>, nrows |-> SumRows, dtypes |-> <<"float64">>,
      data |-> <<bv>>] : bv \in [1..SumRows -> {FloatV(1), FloatV(Big)}]}

InitPrecision ==
    /\ uploads = NoUploads
    /\ response = NoResponse
    /\ df1 \in WideTables \cup SumTables
    /\ df2 \in WideTables \cup SumTables
    /\ max_differences = DefaultMaxDifferences
    /\ pc = "file"
    /\ results = <<>>
    /\ rw = RowCall
    /\ overall_status = ""

SpecPrecision == InitPrecision /\ [][Next]_vars

NoColumns == [columns |-> <<>>, nrows |-> 0, dtypes |-> <<>>, data |-> <<>>]

InitShapes ==
    /\ uploads = NoUploads
    /\ response = NoResponse
    /\ df1 \in Tables \cup {NoColumns}
    /\ df2 \in Tables \cup {NoColumns}
    /\ max_differences = DefaultMaxDifferences
    /\ pc = "file"
    /\ results = <<>>
    /\ rw = RowCall
    /\ overall_status = ""

SpecShapes == InitShapes /\ [][Next]_vars

(***************************************************************************)
(* The four validators run in parallel on the same two tables: each has    *)
(* its place in the list of results; the steps of the four interleave in   *)
(* every way.  The file-level, schema and statistics validators are one    *)
(* step each (they read the two tables and write their own locals only),   *)
(* the row-level validator is stepped as in the sequential run.            *)
(***************************************************************************)
\* the place of a result that has not been returned yet
Pending == ValidationResult("", "pending", "", [pending |-> TRUE])

ParTables == {t \in Tables : t.nrows <= ParRows}

InitParallel ==
    /\ uploads = NoUploads
    /\ response = NoResponse
    /\ df1 \in ParTables
    /\ df2 \in ParTables
    /\ max_differences = DefaultMaxDifferences
    /\ pc = "parallel"
    /\ results = <<Pending, Pending, Pending, Pending>>
    /\ rw = RowCall
    /\ overall_status = ""

ParFileLevel ==
    /\ pc = "parallel"
    /\ results[1] = Pending
    /\ results' = [results EXCEPT ![1] = validate_file_level(df1, df2)]
    /\ UNCHANGED <<uploads, response, df1, df2, max_differences, pc, rw, overall_status>>

ParSchema ==
    /\ pc = "parallel"
    /\ results[2] = Pending
    /\ results' = [results EXCEPT ![2] = validate_schema(df1, df2)]
    /\ UNCHANGED <<uploads, response, df1, df2, max_differences, pc, rw, overall_status>>

ParColumnStatistics ==
    /\ pc = "parallel"
    /\ results[3] = Pending
    /\ results' = [results EXCEPT ![3] = validate_column_stats(df1, df2)]
    /\ UNCHANGED <<uploads, response, df1, df2, max_differences, pc, rw, overall_status>>

\* a slip: table 2 reordered in place instead of copied into df2_aligned
ParRowLevelEntryAlignsInPlace ==
    /\ pc = "parallel"
    /\ rw.pc = "entry"
    /\ rw' = RowEntry(df1, df2, max_differences, rw)
    /\ df2' = IF rw'.pc = "loop" THEN Aligned(df1, df2) ELSE df2
    /\ UNCHANGED <<uploads, response, df1, max_differences, pc, results, overall_status>>

ParRowLevelEntry ==
    /\ pc = "parallel"
    /\ rw.pc = "entry"
    /\ rw' = RowEntry(df1, df2, max_differences, rw)
    /\ UNCHANGED <<uploads, response, df1, df2, max_differences, pc, results, overall_status>>

ParRowLevelCompare ==
    /\ pc = "parallel"
    /\ rw.pc = "loop"
    /\ rw' = RowCompare(df1, df2, max_differences, rw)
    /\ UNCHANGED <<uploads, response, df1, df2, max_differences, pc, results, overall_status>>

ParRowLevelStatus ==
    /\ pc = "parallel"
    /\ rw.pc = "status"
    /\ rw' = RowStatus(df1, df2, max_differences, rw)
    /\ UNCHANGED <<uploads, response, df1, df2, max_differences, pc, results, overall_status>>

ParRowLevelReturn ==
    /\ pc = "parallel"
    /\ rw.pc = "done"
    /\ results[4] = Pending
    /\ results' = [results EXCEPT ![4] = rw.ret[1]]
    /\ UNCHANGED <<uploads, response, df1, df2, max_differences, pc, rw, overall_status>>

\* the four results are there: the overall status
ParOverallStatus ==
    /\ pc = "parallel"
    /\ \A i \in DOMAIN results : results[i] # Pending
    /\ overall_status' = compute_overall_status(results)
    /\ pc' = "done"
    /\ UNCHANGED <<uploads, response, df1, df2, max_differences, results, rw>>

NextParallel ==
    \/ ParFileLevel
    \/ ParSchema
    \/ ParColumnStatistics
    \/ ParRowLevelEntry
    \/ ParRowLevelCompare
    \/ ParRowLevelStatus
    \/ ParRowLevelReturn
    \/ ParOverallStatus

SpecParallel == InitParallel /\ [][NextParallel]_vars

(***************************************************************************)
(* utils/excel_export.py, generate_report: the workbook is the sequence of *)
(* its sheets, a sheet is its name and what is laid into it (the cell      *)
(* formats are left out).                                                  *)
(***************************************************************************)
\* next((r for r in results if r.name == name), None): the first result of
\* that name in a list of one, the empty list for None
FindResult(rs, name) ==
    LET found == {i \in DOMAIN rs : rs[i].name = name} IN
    IF found = {} THEN <<>>
    ELSE <<rs[CHOOSE i \in found : \A j \in found : i <= j]>>

\* if result: self._write_...(workbook, formats, result)
ResultSheet(sheet, found) ==
    IF found = <<>> THEN <<>>
    ELSE <<[sheet |-> sheet, laid |-> found[1].details]>>

generate_report(df_cognos, df_powerbi, rs, overall) ==
    LET file_result == FindResult(rs, "File Validation")
        schema_result == FindResult(rs, "Schema Validation")
        stats_result == FindResult(rs, "Column Statistics")
        row_result == FindResult(rs, "Row-Level Differences")
    IN <<[sheet |-> "Validation_Overview",
          laid |-> [overall_status |-> overall,
                    checks |-> [i \in DOMAIN rs |->
                                   <<rs[i].name, rs[i].status>>]]],
         [sheet |-> "Cognos_Data", laid |-> df_cognos],
         [sheet |-> "PowerBI_Data", laid |-> df_powerbi]>>
       \o ResultSheet("Metric_Comparison", stats_result)
       \o ResultSheet("Schema_Validation", schema_result)
       \o ResultSheet("Record_Count_Validation", file_result)
       \o ResultSheet("Row_Level_Differences", row_result)
       \o <<[sheet |-> "Known_Limitations", laid |-> <<>>]>>

(***************************************************************************)
(* backend/main.py: the two endpoints.  An uploaded file is what each of   *)
(* the tried encodings makes of its bytes: a decoding error, a parser      *)
(* error, pandas' EmptyDataError, or a frame.                              *)
(***************************************************************************)
encodings ==
    <<"utf-8", "utf-8-sig", "utf-16", "utf-16-le", "utf-16-be",
      "latin-1", "cp1252", "iso-8859-1">>

DecodeError == [kind |-> "decode_error", df |-> <<>>]

ParserError == [kind |-> "parser_error", df |-> <<>>]

EmptyDataError == [kind |-> "empty_data", df |-> <<>>]

Frame(df) == [kind |-> "frame", df |-> df]

\* df.empty
IsEmptyFrame(df) == df.nrows = 0 \/ NumCols(df) = 0

\* a slip: the frame returned without the test of df.empty
RECURSIVE read_csv_with_encoding_any_frame(_, _)
read_csv_with_encoding_any_frame(content, i) ==
    IF i > Len(encodings) THEN [ok |-> FALSE, df |-> <<>>]
    ELSE LET outcome == content[encodings[i]] IN
         IF outcome.kind = "frame" THEN [ok |-> TRUE, df |-> outcome.df]
         ELSE IF outcome.kind = "empty_data" THEN [ok |-> FALSE, df |-> <<>>]
         ELSE read_csv_with_encoding_any_frame(content, i + 1)

\* the loop over the encodings from the i-th on: the frame returned, or the
\* ValueError raised (ok is FALSE)
RECURSIVE read_csv_with_encoding(_, _)
read_csv_with_encoding(content, i) ==
    IF i > Len(encodings) THEN [ok |-> FALSE, df |-> <<>>]
    ELSE LET outcome == content[encodings[i]] IN
         IF outcome.kind = "frame" /\ ~IsEmptyFrame(outcome.df)
         THEN [ok |-> TRUE, df |-> outcome.df]
         ELSE IF outcome.kind = "empty_data" THEN [ok |-> FALSE, df |-> <<>>]
         ELSE read_csv_with_encoding(content, i + 1)

\* a file that the encodings before the first-th cannot decode and that the
\* others all read the same way
FileOf(first, outcome) ==
    [e \in Range(encodings) |->
        IF \E i \in 1..(first - 1) : encodings[i] = e THEN DecodeError ELSE outcome]

\* a file of a header line and no row
HeaderOnly == [columns |-> <<"a">>, nrows |-> 0, dtypes |-> <<"object">>, data |-> <<<<>>>>]

\* the uploaded files: tables written in UTF-8 or in UTF-16, a file of no
\* bytes, a file of a header only, a file that no encoding can parse
Uploads ==
    {FileOf(first, Frame(t)) : first \in {1, 3}, t \in ParTables}
    \cup {FileOf(1, EmptyDataError), FileOf(1, Frame(HeaderOnly)), FileOf(1, ParserError)}

\* the table before the file is read
NoTable == [columns |-> <<>>, nrows |-> 0, dtypes |-> <<>>, data |-> <<>>]

InitRequest ==
    /\ uploads \in Uploads \X Uploads
    /\ \E endpoint \in {"validate", "export"} :
          response = [endpoint |-> endpoint, status_code |-> 0, body |-> <<>>]
    /\ df1 = NoTable
    /\ df2 = NoTable
    /\ max_differences = DefaultMaxDifferences
    /\ pc = "read_cognos"
    /\ results = <<>>
    /\ rw = RowCall
    /\ overall_status = ""

\* df_cognos = read_csv_with_encoding(cognos_content, ...); a ValueError is
\* answered by HTTP 400
ReadCognos ==
    /\ pc = "read_cognos"
    /\ LET read == read_csv_with_encoding(uploads[1], 1) IN
       IF read.ok
       THEN df1' = read.df /\ pc' = "read_powerbi" /\ UNCHANGED response
       ELSE /\ response' = [response EXCEPT !.status_code = 400]
            /\ pc' = "error"
            /\ UNCHANGED df1
    /\ UNCHANGED <<uploads, df2, max_differences, results, rw, overall_status>>

ReadPowerBI ==
    /\ pc = "read_powerbi"
    /\ LET read == read_csv_with_encoding(uploads[2], 1) IN
       IF read.ok
       THEN df2' = read.df /\ pc' = "file" /\ UNCHANGED response
       ELSE /\ response' = [response EXCEPT !.status_code = 400]
            /\ pc' = "error"
            /\ UNCHANGED df2
    /\ UNCHANGED <<uploads, df1, max_differences, results, rw, overall_status>>

\* validate_files: the JSON answer
RespondValidate ==
    /\ pc = "done"
    /\ response.endpoint = "validate"
    /\ response' = [response EXCEPT
                       !.status_code = 200,
                       !.body = [success |-> TRUE,
                                 overall_status |-> overall_status,
                                 results |-> results]]
    /\ pc' = "sent"
    /\ UNCHANGED <<uploads, df1, df2, max_differences, results, rw, overall_status>>

\* export_excel: the workbook
RespondExport ==
    /\ pc = "done"
    /\ response.endpoint = "export"
    /\ response' = [response EXCEPT
                       !.status_code = 200,
                       !.body = generate_report(df1, df2, results, overall_status)]
    /\ pc' = "sent"
    /\ UNCHANGED <<uploads, df1, df2, max_differences, results, rw, overall_status>>

NextRequest ==
    \/ ReadCognos
    \/ ReadPowerBI
    \/ Next
    \/ RespondValidate
    \/ RespondExport

SpecRequest == InitRequest /\ [][NextRequest]_vars

(***************************************************************************)
(* The aggregator alone, on every list of up to MaxResults results.        *)
(***************************************************************************)
StatusLists == UNION {[1..n -> ValidationStatus] : n \in 0..MaxResults}

InitAggregate ==
    /\ uploads = NoUploads
    /\ response = NoResponse
    /\ df1 = CHOOSE t \in Tables : TRUE
    /\ df2 = df1
    /\ max_differences = DefaultMaxDifferences
    /\ pc = "overall"
    /\ \E sts \in StatusLists :
          results = [i \in DOMAIN sts |->
                        ValidationResult("File Validation", sts[i], "", [differences |-> <<>>])]
    /\ rw = RowCall
    /\ overall_status = ""

SpecAggregate == InitAggregate /\ [][OverallStatus]_vars

(***************************************************************************)
(* Vocabulary of the properties.                                           *)
(***************************************************************************)
RowDone == rw.pc = "done"

RowResult == rw.ret[1]

PreconditionsHold == df1.nrows = df2.nrows /\ ColumnSet(df1) = ColumnSet(df2)

\* the cells of table 1: row index (from 0) and column name
Cells == {<<i, c>> : i \in 0..(df1.nrows - 1), c \in ColumnSet(df1)}

\* the value a table holds in a cell
CellOf(df, cell) == df.data[ColPos(df, cell[2])][cell[1] + 1]

Missing(v) == v.kind \in {"nan", "none"}

\* two present values are unequal: numbers by their value, the rest as they are
Unequal(v1, v2) ==
    IF v1.kind \in {"int", "float", "bool"} /\ v2.kind \in {"int", "float", "bool"}
    THEN v1.n # v2.n
    ELSE v1 # v2

\* the two tables differ in the cell: not both missing, and one missing or unequal
CellPairDiffers(cell) ==
    LET v1 == CellOf(df1, cell)
        v2 == CellOf(df2, cell)
    IN /\ ~(Missing(v1) /\ Missing(v2))
       /\ (Missing(v1) \/ Missing(v2) \/ Unequal(v1, v2))

\* the walk has recorded a difference for the cell
Recorded(cell) ==
    \E k \in 1..Len(rw.differences) :
        rw.differences[k].row_index = cell[1] /\ rw.differences[k].column = cell[2]

\* the walk has read the two values of the cell
Compared(cell) == \E k \in 1..Len(rw.compared) : rw.compared[k] = cell

\* the two tables have the same rows, the same named columns and the same cells
SameTables ==
    /\ PreconditionsHold
    /\ \A c \in ColumnSet(df1) : Column(df1, c) = Column(df2, c)

StatusesOf(rs) == {rs[i].status : i \in DOMAIN rs}

(***************************************************************************)
(* C1: the overall status of a list of results is FAIL if some result is   *)
(* FAIL, otherwise WARNING if some result is WARNING, otherwise PASS.      *)
(***************************************************************************)
C1_OverallPrecedence ==
    pc = "done" =>
        /\ ("fail" \in StatusesOf(results) => overall_status = "fail")
        /\ ("fail" \notin StatusesOf(results) /\ "warning" \in StatusesOf(results)
                => overall_status = "warning")
        /\ (StatusesOf(results) \subseteq {"pass"} => overall_status = "pass")

\* one FAIL among PASS and WARNING results gives FAIL
C1_Witness ==
    /\ pc = "done"
    /\ StatusesOf(results) = {"pass", "warning", "fail"}
    /\ Cardinality({i \in DOMAIN results : results[i].status = "fail"}) = 1
    /\ overall_status = "fail"

(***************************************************************************)
(* C2: two tables with the same rows, column names, types and cells pass   *)
(* the four validators (row level with the default cap, no difference      *)
(* recorded) and the overall status is PASS.                               *)
(***************************************************************************)
C2_SameTablesPass ==
    (SameTables /\ max_differences = DefaultMaxDifferences) =>
        /\ \A i \in DOMAIN results : results[i].status = "pass"
        /\ (RowDone => RowResult.status = "pass" /\ RowResult.details.differences = <<>>)
        /\ (pc = "done" => Len(results) = 4 /\ overall_status = "pass")

\* a table with a missing cell compared with itself, columns reordered
C2_Witness ==
    /\ pc = "done"
    /\ SameTables
    /\ max_differences = DefaultMaxDifferences
    /\ df1.nrows = MaxRows
    /\ df1.columns # df2.columns
    /\ \E cell \in Cells : Missing(CellOf(df1, cell))
    /\ overall_status = "pass"
    /\ Len(results) = 4

(***************************************************************************)
(* C3: when both preconditions hold, whatever max_differences is, the      *)
(* result is PASS only if every cell pair was compared and none differs,   *)
(* and it is FAIL whenever some cell pair differs.                         *)
(***************************************************************************)
C3_PassOnlyAfterFullWalk ==
    (RowDone /\ PreconditionsHold) =>
        /\ (RowResult.status = "pass" =>
                \A cell \in Cells : Compared(cell) /\ ~CellPairDiffers(cell))
        /\ ((\E cell \in Cells : CellPairDiffers(cell)) => RowResult.status = "fail")

(***************************************************************************)
(* C4: differing row counts give WARNING with no difference and the        *)
(* row-count summary, whatever the columns; otherwise differing column     *)
(* name sets give WARNING with no difference and the column-name summary.  *)
(* WARNING is returned in no other case, and no cell is compared when a    *)
(* precondition is unmet.                                                  *)
(***************************************************************************)
C4_PreconditionsInOrder ==
    /\ (~PreconditionsHold => rw.compared = <<>>)
    /\ (RowDone =>
        /\ (df1.nrows # df2.nrows =>
                RowResult = ValidationResult("Row Level Differences", "warning",
                                "Cannot compare rows - row counts differ",
                                [differences |-> <<>>]))
        /\ (df1.nrows = df2.nrows /\ ColumnSet(df1) # ColumnSet(df2) =>
                RowResult = ValidationResult("Row Level Differences", "warning",
                                "Cannot compare rows - column names differ",
                                [differences |-> <<>>]))
        /\ (PreconditionsHold => RowResult.status # "warning"))

\* both preconditions unmet: the row counts decide
C4_Witness ==
    /\ RowDone
    /\ df1.nrows # df2.nrows
    /\ ColumnSet(df1) # ColumnSet(df2)
    /\ RowResult.status = "warning"
    /\ RowResult.summary = "Cannot compare rows - row counts differ"

(***************************************************************************)
(* C5: with both preconditions and the cap not reached, a difference is    *)
(* recorded for a cell exactly when the two values are not both missing    *)
(* and are unequal (a missing value against a present one is unequal).     *)
(***************************************************************************)
C5_RecordedIffDiffers ==
    (rw.pc \in {"status", "done"} /\ PreconditionsHold
        /\ Len(rw.differences) < max_differences) =>
        \A cell \in Cells : Recorded(cell) <=> CellPairDiffers(cell)

\* a walk with a cell missing on both sides (not recorded) and a cell missing
\* on one side (recorded)
C5_Witness ==
    /\ RowDone
    /\ PreconditionsHold
    /\ Len(rw.differences) < max_differences
    /\ \E cell \in Cells :
          Missing(CellOf(df1, cell)) /\ Missing(CellOf(df2, cell)) /\ ~Recorded(cell)
    /\ \E cell \in Cells :
          Missing(CellOf(df1, cell)) /\ ~Missing(CellOf(df2, cell)) /\ Recorded(cell)

(***************************************************************************)
(* C6: with max_differences >= 1 and D differing cells, the returned list  *)
(* holds min(D, max_differences) entries, the first differing cells in     *)
(* row-major order (rows ascending, then table 1's column order), and the  *)
(* status is FAIL when D > max_differences.                                *)
(***************************************************************************)
\* the cells of table 1 in row-major order
RowMajorCells ==
    [n \in 1..(df1.nrows * NumCols(df1)) |->
        <<(n - 1) \div NumCols(df1), df1.columns[((n - 1) % NumCols(df1)) + 1]>>]

DifferingCells == SelectSeq(RowMajorCells, CellPairDiffers)

C6_FirstDifferencesInOrder ==
    (RowDone /\ PreconditionsHold /\ max_differences >= 1) =>
        LET D == Len(DifferingCells)
            k == Min2(D, max_differences)
            got == RowResult.details.differences
        IN /\ Len(got) = k
           /\ \A j \in 1..k : <<got[j].row_index, got[j].column>> = DifferingCells[j]
           /\ (D > max_differences => RowResult.status = "fail")

\* more differing cells than the cap, the list cut to the cap
C6_Witness ==
    /\ RowDone
    /\ PreconditionsHold
    /\ max_differences = MaxCap
    /\ Len(DifferingCells) > max_differences
    /\ Len(RowResult.details.differences) = max_differences
    /\ RowResult.status = "fail"

(***************************************************************************)
(* C7: once a difference has been recorded and the number of recorded      *)
(* differences has reached max_differences, no further cell is compared.   *)
(***************************************************************************)
C7_NoCompareAfterCap ==
    [][(rw.differences # <<>> /\ Len(rw.differences) >= max_differences)
            => rw'.compared = rw.compared]_vars

\* the cap was reached in the first row before its last column: the rest of
\* the row and the later rows were never compared
C7_Witness ==
    /\ RowDone
    /\ PreconditionsHold
    /\ max_differences >= 1
    /\ Len(rw.differences) = max_differences
    /\ df1.nrows = MaxRows
    /\ \A cell \in Cells : Compared(cell) => cell[1] = 0
    /\ \E cell \in Cells : cell[1] = 0 /\ ~Compared(cell)

(***************************************************************************)
(* C8: the summary of a FAIL result states the number of differences       *)
(* found; as claimed, it notes that only the first max_differences are     *)
(* shown when, and only when, the cap cut the walk short.                  *)
(***************************************************************************)
FoundText(found) == "Found " \o ToString(found) \o " difference(s)"

ShowingNote == " (showing first " \o ToString(max_differences) \o ")"

\* the cap was reached: the walk stopped on it
CutShort == Len(rw.differences) >= max_differences

C8_NoteOnlyWhenCutShort ==
    (RowDone /\ RowResult.status = "fail") =>
        /\ RowResult.summary \in
              {FoundText(Len(rw.differences)), FoundText(Len(rw.differences)) \o ShowingNote}
        /\ (RowResult.summary = FoundText(Len(rw.differences)) \o ShowingNote <=> CutShort)

\* C8 as amended: the summary of every FAIL result states the number of
\* differences recorded and that the first max_differences are shown, whether
\* or not the cap cut the walk short.
C8_NoteInEveryFail ==
    (RowDone /\ RowResult.status = "fail") =>
        RowResult.summary = FoundText(Len(rw.differences)) \o ShowingNote

\* a FAIL below the cap, every cell compared
C8_Witness ==
    /\ RowDone
    /\ RowResult.status = "fail"
    /\ ~CutShort
    /\ \A cell \in Cells : Compared(cell)
    /\ RowResult.summary = FoundText(Len(rw.differences)) \o ShowingNote

(***************************************************************************)
(* C9: every recorded difference carries the row index, the column name    *)
(* and the display strings of the two values; the display string of a      *)
(* missing value is empty.                                                 *)
(***************************************************************************)
\* the display string the claim gives a value of a row
DisplayString(v) == IF Missing(v) THEN "" ELSE PyStr(v)

C9_MissingDisplaysEmpty ==
    \A k \in 1..Len(rw.differences) :
        LET d == rw.differences[k] IN
        /\ <<d.row_index, d.column>> \in Cells
        /\ d.source_value = DisplayString(RowValue(df1, d.row_index, d.column))
        /\ d.target_value = DisplayString(RowValue(df2, d.row_index, d.column))

(***************************************************************************)
(* C10: cells are paired by column name: with equal row counts and equal   *)
(* column name sets, every reordering of table 2's columns gives the same  *)
(* status and the same differences, and the call changes neither table.    *)
(***************************************************************************)
Reorderings(df) == {SelectColumns(df, cs) : cs \in {p \in ColSeqs : Range(p) = ColumnSet(df)}}

C10_PairedByName ==
    /\ []((RowDone /\ PreconditionsHold) =>
            \A other \in Reorderings(df2) :
                validate_row_level(df1, other, max_differences) = RowResult)
    /\ [][df1' = df1 /\ df2' = df2]_vars

\* table 2 holds table 1's columns in another order, and a cell differs
C10_Witness ==
    /\ RowDone
    /\ PreconditionsHold
    /\ df2.columns # df1.columns
    /\ RowResult.status = "fail"
    /\ \E cell \in Cells : ~CellPairDiffers(cell)

(***************************************************************************)
(* C11: the file-level result is PASS exactly when the two row counts are  *)
(* equal and the two column counts are equal, FAIL otherwise and never     *)
(* WARNING; its details hold the four counts, row_match is true exactly    *)
(* when the row counts are equal and column_match exactly when the column  *)
(* counts are equal, whatever the names and the content.                   *)
(***************************************************************************)
FileDone == Len(results) >= 1

FileResult == results[1]

C11_FileLevelCounts ==
    FileDone =>
        LET d == FileResult.details
            rows_equal == df1.nrows = df2.nrows
            cols_equal == Len(df1.columns) = Len(df2.columns)
        IN /\ FileResult.status = (IF rows_equal /\ cols_equal THEN "pass" ELSE "fail")
           /\ FileResult.status # "warning"
           /\ {"row_count_1", "row_count_2", "column_count_1", "column_count_2"}
                  \subseteq DOMAIN d
           /\ d.row_count_1 = df1.nrows
           /\ d.row_count_2 = df2.nrows
           /\ d.column_count_1 = Len(df1.columns)
           /\ d.column_count_2 = Len(df2.columns)
           /\ d.row_match = rows_equal
           /\ d.column_match = cols_equal

\* the counts are equal, the names and the content are not: PASS
C11_Witness ==
    /\ FileDone
    /\ FileResult.status = "pass"
    /\ FileResult.details.column_match
    /\ ColumnSet(df1) # ColumnSet(df2)

(***************************************************************************)
(* C12: the schema result takes the column names as sets: missing_columns  *)
(* is the names of table 1 absent from table 2, extra_columns the names of *)
(* table 2 absent from table 1, common_columns the intersection; each list *)
(* is in ascending order without duplicates, the three are pairwise        *)
(* disjoint, and the result is the same for every column order of either   *)
(* table.                                                                  *)
(***************************************************************************)
SchemaDone == Len(results) >= 2

SchemaResult == results[2]

\* the rank of a name in the ascending order of the names
NameRank(c) == CHOOSE i \in DOMAIN NameOrder : NameOrder[i] = c

\* strictly ascending: sorted and without duplicates
Ascending(names) ==
    \A i \in DOMAIN names : \A j \in DOMAIN names :
        i < j => NameRank(names[i]) < NameRank(names[j])

C12_SchemaNameSets ==
    SchemaDone =>
        LET d == SchemaResult.details
            missing == d.missing_columns
            extra == d.extra_columns
            common == d.common_columns
        IN /\ Range(missing) = ColumnSet(df1) \ ColumnSet(df2)
           /\ Range(extra) = ColumnSet(df2) \ ColumnSet(df1)
           /\ Range(common) = ColumnSet(df1) \cap ColumnSet(df2)
           /\ Ascending(missing) /\ Ascending(extra) /\ Ascending(common)
           /\ Range(missing) \cap Range(extra) = {}
           /\ Range(missing) \cap Range(common) = {}
           /\ Range(extra) \cap Range(common) = {}
           /\ \A o1 \in Reorderings(df1) : \A o2 \in Reorderings(df2) :
                  validate_schema(o1, o2) = SchemaResult

\* two common columns, held by the two tables in opposite orders
C12_Witness ==
    /\ SchemaDone
    /\ df1.columns = <<"b", "a">>
    /\ df2.columns = <<"a", "b">>
    /\ SchemaResult.details.common_columns = <<"a", "b">>

(***************************************************************************)
(* C13: type_mismatches holds exactly one entry (column, tag in table 1,   *)
(* tag in table 2) for every common column whose two type tags differ and  *)
(* none for the other columns; the schema result is FAIL exactly when      *)
(* missing_columns, extra_columns or type_mismatches is not empty, PASS    *)
(* otherwise, and never WARNING.                                           *)
(***************************************************************************)
\* the type tag of a storage type
TagOf(dtype) ==
    CASE dtype = "int64" -> "integer"
      [] dtype = "float64" -> "float"
      [] dtype = "datetime64" -> "datetime"
      [] dtype = "bool" -> "boolean"
      [] dtype = "object" -> "string"

CommonColumns == ColumnSet(df1) \cap ColumnSet(df2)

\* the tag of a column of a table
ColumnTag(df, c) == TagOf(Column(df, c).dtype)

C13_TypeMismatchesAndStatus ==
    SchemaDone =>
        LET d == SchemaResult.details
            differing == {c \in CommonColumns : ColumnTag(df1, c) # ColumnTag(df2, c)}
            entry(c) == [column |-> c,
                         source_type |-> ColumnTag(df1, c),
                         target_type |-> ColumnTag(df2, c)]
        IN /\ Range(d.type_mismatches) = {entry(c) : c \in differing}
           /\ Len(d.type_mismatches) = Cardinality(differing)
           /\ SchemaResult.status =
                  (IF \/ d.missing_columns # <<>>
                      \/ d.extra_columns # <<>>
                      \/ d.type_mismatches # <<>>
                   THEN "fail" ELSE "pass")
           /\ SchemaResult.status # "warning"

\* two common columns, the tags of one differ: one entry, and FAIL because of it
C13_Witness ==
    /\ SchemaDone
    /\ Cardinality(CommonColumns) = 2
    /\ ColumnSet(df1) = ColumnSet(df2)
    /\ Len(SchemaResult.details.type_mismatches) = 1
    /\ SchemaResult.status = "fail"

(***************************************************************************)
(* C14: the classifier gives every column exactly one tag of integer,      *)
(* float, datetime, boolean, string, the tag of the column's storage type: *)
(* a column stored as integers is never tagged float, and a column stored  *)
(* as text is tagged string also when every value reads as a number.       *)
(***************************************************************************)
TypeTags == {"integer", "float", "datetime", "boolean", "string"}

\* a text that reads as a number
LooksNumeric(v) == v.kind = "str" /\ v.s \in {"0", "1"}

C14_TagByStorageType ==
    \A df \in {df1, df2} : \A c \in ColumnSet(df) :
        LET series == Column(df, c)
            tag == get_column_type(series)
        IN /\ tag \in TypeTags
           /\ tag = TagOf(series.dtype)
           /\ (series.dtype = "int64" => tag # "float")
           /\ (series.dtype = "object" => tag = "string")

\* a column of integers in table 1 is text that reads as numbers in table 2:
\* the schema check has tagged it integer and string
C14_Witness ==
    /\ SchemaDone
    /\ \E k \in DOMAIN SchemaResult.details.type_mismatches :
          LET e == SchemaResult.details.type_mismatches[k] IN
          /\ e.source_type = "integer"
          /\ e.target_type = "string"
          /\ Column(df1, e.column).dtype = "int64"
          /\ \A i \in DOMAIN Column(df2, e.column).vals :
                 LooksNumeric(Column(df2, e.column).vals[i])

(***************************************************************************)
(* C15: a common column gets a numeric record (null count, min, max, sum)  *)
(* exactly when both sides are tagged integer or float by the classifier;  *)
(* every other common column, a boolean, datetime or string one on either  *)
(* side included, gets a non-numeric record (null count, distinct count).  *)
(***************************************************************************)
StatsDone == Len(results) >= 3

StatsResult == results[3]

\* the records of the column statistics
StatsRecords == StatsResult.details.stats

NumericTags == {"integer", "float"}

C15_NumericBranchIffIntegerOrFloat ==
    StatsDone =>
        \A k \in DOMAIN StatsRecords :
            LET rec == StatsRecords[k]
                both_numeric == /\ ColumnTag(df1, rec.column) \in NumericTags
                                /\ ColumnTag(df2, rec.column) \in NumericTags
            IN rec.type = (IF both_numeric THEN "numeric" ELSE "non-numeric")

(***************************************************************************)
(* C16: in a numeric record, min, max and sum of a side whose column is    *)
(* entirely null are the no-value marker, not zero, and the match flag is  *)
(* true exactly when the null counts, the mins, the maxes and the sums of  *)
(* the two sides are equal, the marker being equal to the marker and to no *)
(* number: an all-null side never matches a side whose sum is 0.           *)
(***************************************************************************)
\* the values of a column that are present
PresentValues(series) == {series.vals[i].n : i \in {j \in DOMAIN series.vals : ~Missing(series.vals[j])}}

\* the number of missing values of a column
MissingCount(series) == Cardinality({i \in DOMAIN series.vals : Missing(series.vals[i])})

RECURSIVE TotalUpTo(_, _)
TotalUpTo(vals, k) ==
    IF k = 0 THEN 0
    ELSE TotalUpTo(vals, k - 1) + (IF Missing(vals[k]) THEN 0 ELSE vals[k].n)

\* the statistics of a column: the marker when no value is present
Marker == None

LeastOf(series) ==
    IF PresentValues(series) = {} THEN Marker
    ELSE FloatV(CHOOSE x \in PresentValues(series) : \A y \in PresentValues(series) : x <= y)

GreatestOf(series) ==
    IF PresentValues(series) = {} THEN Marker
    ELSE FloatV(CHOOSE x \in PresentValues(series) : \A y \in PresentValues(series) : x >= y)

TotalOf(series) ==
    IF PresentValues(series) = {} THEN Marker
    ELSE FloatV(TotalUpTo(series.vals, Len(series.vals)))

C16_NumericRecord ==
    StatsDone =>
        \A k \in DOMAIN StatsRecords :
            LET rec == StatsRecords[k]
                s1 == Column(df1, rec.column)
                s2 == Column(df2, rec.column)
            IN rec.type = "numeric" =>
                /\ rec.source_nulls = MissingCount(s1)
                /\ rec.target_nulls = MissingCount(s2)
                /\ rec.source_min = LeastOf(s1) /\ rec.target_min = LeastOf(s2)
                /\ rec.source_max = GreatestOf(s1) /\ rec.target_max = GreatestOf(s2)
                /\ rec.source_sum = TotalOf(s1) /\ rec.target_sum = TotalOf(s2)
                /\ (PresentValues(s1) = {} =>
                       /\ rec.source_min = Marker /\ rec.source_min # FloatV(0)
                       /\ rec.source_max = Marker /\ rec.source_max # FloatV(0)
                       /\ rec.source_sum = Marker /\ rec.source_sum # FloatV(0))
                /\ (PresentValues(s2) = {} =>
                       /\ rec.target_min = Marker /\ rec.target_min # FloatV(0)
                       /\ rec.target_max = Marker /\ rec.target_max # FloatV(0)
                       /\ rec.target_sum = Marker /\ rec.target_sum # FloatV(0))
                /\ rec.match = (/\ MissingCount(s1) = MissingCount(s2)
                                /\ LeastOf(s1) = LeastOf(s2)
                                /\ GreatestOf(s1) = GreatestOf(s2)
                                /\ TotalOf(s1) = TotalOf(s2))

\* an all-null side against a side with as many nulls and the sum 0: no match
C16_Witness ==
    /\ StatsDone
    /\ \E k \in DOMAIN StatsRecords :
          LET rec == StatsRecords[k] IN
          /\ rec.type = "numeric"
          /\ rec.source_nulls = rec.target_nulls
          /\ rec.source_sum = Marker
          /\ rec.target_sum = FloatV(0)
          /\ ~rec.match

(***************************************************************************)
(* C17: in a non-numeric record, the distinct count of a side is the       *)
(* number of distinct values that are not null (null is never counted as a *)
(* value), and the match flag is true exactly when the two null counts are *)
(* equal and the two distinct counts are equal.                            *)
(***************************************************************************)
\* the number of distinct values of a column that are present
DistinctCount(series) ==
    Cardinality({series.vals[i] : i \in {j \in DOMAIN series.vals : ~Missing(series.vals[j])}})

C17_NonNumericRecord ==
    StatsDone =>
        \A k \in DOMAIN StatsRecords :
            LET rec == StatsRecords[k]
                s1 == Column(df1, rec.column)
                s2 == Column(df2, rec.column)
            IN rec.type = "non-numeric" =>
                /\ rec.source_nulls = MissingCount(s1)
                /\ rec.target_nulls = MissingCount(s2)
                /\ rec.source_unique = DistinctCount(s1)
                /\ rec.target_unique = DistinctCount(s2)
                /\ rec.match = (/\ MissingCount(s1) = MissingCount(s2)
                                /\ DistinctCount(s1) = DistinctCount(s2))

\* two text columns with a null each and one value each, not the same value:
\* the counts are equal and the columns match
C17_Witness ==
    /\ StatsDone
    /\ \E k \in DOMAIN StatsRecords :
          LET rec == StatsRecords[k] IN
          /\ rec.type = "non-numeric"
          /\ rec.source_nulls = 1 /\ rec.target_nulls = 1
          /\ rec.source_unique = 1 /\ rec.target_unique = 1
          /\ rec.match
          /\ Column(df1, rec.column).vals # Column(df2, rec.column).vals

(***************************************************************************)
(* C18: when the tables share a column name, the statistics result holds   *)
(* exactly one record per common column, in ascending order of the column  *)
(* names; mismatch_count is the number of records whose match flag is      *)
(* false, and the status is FAIL exactly when mismatch_count > 0, PASS     *)
(* otherwise.                                                              *)
(***************************************************************************)
\* the columns of the records, in the order of the records
RecordColumns == [k \in DOMAIN StatsRecords |-> StatsRecords[k].column]

C18_OneRecordPerCommonColumn ==
    (StatsDone /\ CommonColumns # {}) =>
        LET d == StatsResult.details
            unmatched == {k \in DOMAIN d.stats : ~d.stats[k].match}
        IN /\ Range(RecordColumns) = CommonColumns
           /\ Len(RecordColumns) = Cardinality(CommonColumns)
           /\ Ascending(RecordColumns)
           /\ d.mismatch_count = Cardinality(unmatched)
           /\ StatsResult.status = (IF d.mismatch_count > 0 THEN "fail" ELSE "pass")

\* two common columns held in descending order by table 1, one of them differs
C18_Witness ==
    /\ StatsDone
    /\ df1.columns = <<"b", "a">>
    /\ RecordColumns = <<"a", "b">>
    /\ StatsResult.details.mismatch_count = 1
    /\ StatsResult.status = "fail"

(***************************************************************************)
(* C19: the statistics result is WARNING, with an empty list of records,   *)
(* exactly when the two tables have no column name in common: never FAIL   *)
(* or PASS then, and never WARNING when a common column exists.            *)
(***************************************************************************)
C19_WarningIffNoCommonColumn ==
    StatsDone =>
        /\ (StatsResult.status = "warning") = (CommonColumns = {})
        /\ (CommonColumns = {} => StatsResult.details.stats = <<>>)
        /\ StatsResult.status \in ValidationStatus

\* no common column: WARNING without records
C19_Witness ==
    /\ StatsDone
    /\ CommonColumns = {}
    /\ StatsResult.status = "warning"
    /\ StatsResult.details.stats = <<>>

(***************************************************************************)
(* C20: whatever the four statuses, the comparison produces exactly four   *)
(* results, in the order and with the names File Validation, Schema        *)
(* Validation, Column Statistics, Row Level Differences, and one overall   *)
(* status: a WARNING or a FAIL of one validator never keeps another from   *)
(* running or its result from being reported.                              *)
(***************************************************************************)
ResultNames ==
    <<"File Validation", "Schema Validation", "Column Statistics", "Row Level Differences">>

C20_FourResultsAndOverall ==
    /\ Len(results) <= Len(ResultNames)
    /\ \A i \in DOMAIN results :
          results[i].name = ResultNames[i] /\ results[i].status \in ValidationStatus
    /\ (pc = "done" => results # <<>> /\ Len(results) = Len(ResultNames)
                        /\ overall_status \in ValidationStatus)
    /\ (pc # "done" => ENABLED Next)

\* two FAILs and two WARNINGs, four results and the overall status
C20_Witness ==
    /\ pc = "done"
    /\ [i \in DOMAIN results |-> results[i].status] = <<"fail", "fail", "warning", "warning">>
    /\ [i \in DOMAIN results |-> results[i].name] = ResultNames
    /\ overall_status = "fail"

(***************************************************************************)
(* C21: the four validators run in parallel, their steps interleaved in    *)
(* any way, give the four results of the sequential run: every result      *)
(* returned so far is the one the validator gives on the two tables alone, *)
(* the end holds the four of them and their overall status, and no step    *)
(* changes either table.                                                   *)
(***************************************************************************)
\* the results of the sequential run on the two tables
SequentialResults ==
    <<validate_file_level(df1, df2),
      validate_schema(df1, df2),
      validate_column_stats(df1, df2),
      validate_row_level(df1, df2, max_differences)>>

DedicatedSheets ==
    <<"Record_Count_Validation", "Schema_Validation", "Metric_Comparison",
      "Row_Level_Differences">>

\* the request is answered by a workbook
WorkbookSent ==
    pc = "sent" /\ response.endpoint = "export" /\ response.status_code = 200

C22_EachResultInItsSheet ==
    WorkbookSent =>
        \A i \in DOMAIN results :
            \E k \in DOMAIN response.body :
                /\ response.body[k].sheet = DedicatedSheets[i]
                /\ response.body[k].laid = results[i].details

(***************************************************************************)
(* C23: in both endpoints no validator is invoked before the reader has    *)
(* returned a non-empty table for both uploads: when an upload is empty or *)
(* no tried encoding parses it, the request ends in the error HTTP 400, no *)
(* validator has run and no result is returned.                            *)
(***************************************************************************)
\* some tried encoding makes a non-empty table of the file, and the file is
\* not found empty before
Readable(content) ==
    \E i \in DOMAIN encodings :
        /\ content[encodings[i]].kind = "frame"
        /\ ~IsEmptyFrame(content[encodings[i]].df)
        /\ \A j \in 1..(i - 1) : content[encodings[j]].kind # "empty_data"

\* a validator has been invoked
ValidatorInvoked == results # <<>> \/ rw # RowCall

Reading == pc \in {"read_cognos", "read_powerbi"}

C23_ReadBeforeValidators ==
    /\ (ValidatorInvoked =>
           /\ Readable(uploads[1]) /\ Readable(uploads[2])
           /\ ~IsEmptyFrame(df1) /\ ~IsEmptyFrame(df2))
    /\ ((~Readable(uploads[1]) \/ ~Readable(uploads[2])) =>
           /\ ~ValidatorInvoked
           /\ Reading \/ pc = "error"
           /\ response.status_code \in {0, 400}
           /\ response.body = <<>>)
    /\ (pc = "error" =>
           /\ response.status_code = 400
           /\ response.body = <<>>
           /\ results = <<>>
           /\ overall_status = "")
    /\ (Reading => ENABLED (ReadCognos \/ ReadPowerBI))

\* the first upload is read, the second is a header without rows: HTTP 400
C23_Witness ==
    /\ pc = "error"
    /\ df1 # NoTable
    /\ uploads[2] = FileOf(1, Frame(HeaderOnly))
    /\ response.status_code = 400
    /\ ~ValidatorInvoked

(***************************************************************************)
(* C24: on the same two tables, the row-level result is WARNING exactly    *)
(* when the file-level result reports row_match false or the schema result *)
(* a missing or an extra column; a type mismatch alone, or a column-count  *)
(* mismatch alone, never spares the walk.                                  *)
(***************************************************************************)
PipelineDone == pc = "done"

\* the four results of a finished comparison
RowLevelResult == results[4]

C24_WarningIffPreconditionFails ==
    PipelineDone =>
        LET file == FileResult.details
            schema == SchemaResult.details
            refused == \/ ~file.row_match
                       \/ schema.missing_columns # <<>>
                       \/ schema.extra_columns # <<>>
        IN /\ (RowLevelResult.status = "warning") = refused
           /\ ((file.row_match /\ schema.missing_columns = <<>>
                /\ schema.extra_columns = <<>>)
               => /\ RowLevelResult.status \in {"pass", "fail"}
                  /\ rw.compared # <<>>)

\* a type mismatch and nothing else: the cells are walked
C24_Witness ==
    /\ PipelineDone
    /\ FileResult.status = "pass"
    /\ SchemaResult.details.type_mismatches # <<>>
    /\ SchemaResult.details.missing_columns = <<>>
    /\ SchemaResult.details.extra_columns = <<>>
    /\ RowLevelResult.status = "fail"
    /\ Len(rw.compared) = df1.nrows * NumCols(df1)

(***************************************************************************)
(* C25: for two tables with at least one column each, the overall status   *)
(* of the comparison is never WARNING: whenever the row-level or the       *)
(* statistics result is WARNING, the file-level or the schema result is    *)
(* FAIL and so is the overall status.  The overall status is WARNING only  *)
(* when both tables have no columns.                                       *)
(***************************************************************************)
C25_OverallNeverWarning ==
    PipelineDone =>
        /\ ((NumCols(df1) >= 1 /\ NumCols(df2) >= 1) =>
               /\ overall_status # "warning"
               /\ ((RowLevelResult.status = "warning" \/ StatsResult.status = "warning") =>
                      /\ FileResult.status = "fail" \/ SchemaResult.status = "fail"
                      /\ overall_status = "fail"))
        /\ (overall_status = "warning" => NumCols(df1) = 0 /\ NumCols(df2) = 0)

\* equal row counts and no common column: two WARNINGs, the schema result is
\* FAIL and so is the overall status
C25_Witness ==
    /\ PipelineDone
    /\ NumCols(df1) >= 1 /\ NumCols(df2) >= 1
    /\ FileResult.status = "pass"
    /\ StatsResult.status = "warning"
    /\ RowLevelResult.status = "warning"
    /\ SchemaResult.status = "fail"
    /\ overall_status = "fail"

(***************************************************************************)
(* C26: for every pair of tables and every max_differences, the row-level  *)
(* result is FAIL exactly when details.differences is not empty, a PASS or *)
(* WARNING result has no differences, and details.differences is never     *)
(* longer than max_differences.                                            *)
(***************************************************************************)
C26_FailIffDifferencesReturned ==
    RowDone =>
        LET returned == RowResult.details.differences IN
        /\ (RowResult.status = "fail") = (returned # <<>>)
        /\ (RowResult.status \in {"pass", "warning"} => returned = <<>>)
        /\ Len(returned) <= max_differences

(***************************************************************************)
(* C27: for two tables with at least one column on which the row-level     *)
(* validator, under the default cap and with every row walked, returns     *)
(* PASS, the statistics validator does not return FAIL: cells equal one by *)
(* one, missing equal to missing, give equal null counts, minima, maxima,  *)
(* sums and distinct counts in every common column.                        *)
(***************************************************************************)
C27_RowPassImpliesStatsNotFail ==
    (/\ PipelineDone
     /\ NumCols(df1) >= 1 /\ NumCols(df2) >= 1
     /\ max_differences = DefaultMaxDifferences
     /\ RowLevelResult.status = "pass") =>
        /\ StatsResult.status # "fail"
        /\ \A k \in DOMAIN StatsRecords : StatsRecords[k].match

(***************************************************************************)
(* C28: rows are aligned by position: whatever the order of the rows of    *)
(* table 2, the file-level, schema and column-statistics results are the   *)
(* same, and the row-level result lists every cell whose value at the same *)
(* row index is not table 1's.                                             *)
(***************************************************************************)
\* the tables that hold the rows of df in another order
RowPermutations(df) ==
    {[df EXCEPT !.data = [i \in DOMAIN df.data |-> [r \in 1..df.nrows |-> df.data[i][p[r]]]]] :
        p \in Permutations(1..df.nrows)}

\* the cells the row-level result lists for table 1 against another table 2
Listed(other, cell) ==
    LET ds == validate_row_level(df1, other, max_differences).details.differences
    IN \E k \in DOMAIN ds : ds[k].row_index = cell[1] /\ ds[k].column = cell[2]

\* the first three results do not depend on the order of the rows of table 2
FirstThreeUnchanged(other) ==
    /\ validate_file_level(df1, other) = FileResult
    /\ validate_schema(df1, other) = SchemaResult
    /\ validate_column_stats(df1, other) = StatsResult

\* every cell of the other table that differs from table 1's is listed
DifferingCellsListed(other) ==
    PreconditionsHold =>
        \A cell \in Cells :
            LET v1 == CellOf(df1, cell)
                v2 == CellOf(other, cell)
            IN (/\ ~(Missing(v1) /\ Missing(v2))
                /\ (Missing(v1) \/ Missing(v2) \/ Unequal(v1, v2))) => Listed(other, cell)

\* C28: for every permutation of the rows of table 2 the first three results
\* are unchanged and the row-level result lists every cell that differs at
\* the same row index
C28_RowOrderOnlyInRowLevel ==
    PipelineDone =>
        \A other \in RowPermutations(df2) :
            FirstThreeUnchanged(other) /\ DifferingCellsListed(other)

====
